---------------------------- MODULE Spec2Model ----------------------------
(***************************************************************************)
(* A model of the Telegram bot of src/main.py: the dispatcher set up by    *)
(* main(), the five handlers it registers, and the four MongoDB            *)
(* collections they write (db.users, db.chat_history, db.files,            *)
(* db.web_search).                                                         *)
(*                                                                         *)
(* Updates are handled one at a time (Updater.start_polling with the       *)
(* default dispatcher), so one step of the model is one update handled to  *)
(* completion.  Every call a handler makes to a collaborator (MongoDB,     *)
(* Gemini, the Telegram API) either returns or raises; which of them       *)
(* raise while an update is handled is chosen by the environment; the ones *)
(* that did raise are kept in the variable fault.                          *)
(*                                                                         *)
(* Texts that are formatted, joined or searched are sequences of           *)
(* one-character strings, so that " ".join and the f-strings are computed  *)
(* as Python computes them.                                                *)
(***************************************************************************)
EXTENDS Integers, Sequences, FiniteSets, TLC

VARIABLES
    db,           \* the database telegram_bot: one sequence of documents per collection
    now,          \* the number of updates received so far; datetime.utcnow() reads it
    last_update,  \* the update handled by the last step
    fault,        \* the calls that raised while last_update was handled
    handled,      \* the callbacks the dispatcher invoked for last_update
    replies,      \* the replies delivered to the user while last_update was handled
    raised        \* TRUE iff the callback ended by raising into the dispatcher

vars == <<db, now, last_update, fault, handled, replies, raised>>

\* The number of updates a run of the model receives.
MaxEvents == 3

-----------------------------------------------------------------------------
(* The literal texts of src/main.py.                                       *)

\* main.py:49 "Welcome! Please share your phone number to complete registration."
WELCOME ==
    <<"W","e","l","c","o","m","e","!"," ","P","l","e","a","s","e"," ",
      "s","h","a","r","e"," ","y","o","u","r"," ","p","h","o","n","e",
      " ","n","u","m","b","e","r"," ","t","o"," ","c","o","m","p","l",
      "e","t","e"," ","r","e","g","i","s","t","r","a","t","i","o","n",
      ".">>

\* main.py:57 "Thank you! Your phone number has been saved."
THANK_YOU ==
    <<"T","h","a","n","k"," ","y","o","u","!"," ","Y","o","u","r"," ",
      "p","h","o","n","e"," ","n","u","m","b","e","r"," ","h","a","s",
      " ","b","e","e","n"," ","s","a","v","e","d",".">>

\* main.py:78 "Sorry, I couldn't process that right now."
SORRY_CHAT ==
    <<"S","o","r","r","y",","," ","I"," ","c","o","u","l","d","n","'",
      "t"," ","p","r","o","c","e","s","s"," ","t","h","a","t"," ","r",
      "i","g","h","t"," ","n","o","w",".">>

\* main.py:103 "Sorry, I couldn't analyze the file."
SORRY_FILE ==
    <<"S","o","r","r","y",","," ","I"," ","c","o","u","l","d","n","'",
      "t"," ","a","n","a","l","y","z","e"," ","t","h","e"," ","f","i",
      "l","e",".">>

\* main.py:109 "Please provide a query after /websearch."
USAGE ==
    <<"P","l","e","a","s","e"," ","p","r","o","v","i","d","e"," ","a",
      " ","q","u","e","r","y"," ","a","f","t","e","r"," ","/","w","e",
      "b","s","e","a","r","c","h",".">>

\* main.py:124 "Sorry, I couldn't perform the web search."
SORRY_SEARCH ==
    <<"S","o","r","r","y",","," ","I"," ","c","o","u","l","d","n","'",
      "t"," ","p","e","r","f","o","r","m"," ","t","h","e"," ","w","e",
      "b"," ","s","e","a","r","c","h",".">>

\* main.py:88 f"Analysis of {file_name} completed by Gemini AI."  (part before the name)
ANALYSIS_PREFIX ==
    <<"A","n","a","l","y","s","i","s"," ","o","f"," ">>

\* main.py:88 (part after the name)
ANALYSIS_SUFFIX ==
    <<" ","c","o","m","p","l","e","t","e","d"," ","b","y"," ","G","e",
      "m","i","n","i"," ","A","I",".">>

\* main.py:99 f"File analyzed: {gemini_analysis}"
FILE_ANALYZED ==
    <<"F","i","l","e"," ","a","n","a","l","y","z","e","d",":"," ">>

\* main.py:114 f"Results for '{query}' retrieved by AI."  (part before the query)
RESULTS_PREFIX ==
    <<"R","e","s","u","l","t","s"," ","f","o","r"," ","'">>

\* main.py:114 (part after the query)
RESULTS_SUFFIX ==
    <<"'"," ","r","e","t","r","i","e","v","e","d"," ","b","y"," ","A",
      "I",".">>

\* main.py:83 "photo.jpg"
PHOTO_JPG ==
    <<"p","h","o","t","o",".","j","p","g">>

\* main.py:132 "start"
CMD_START ==
    <<"s","t","a","r","t">>

\* main.py:133 "websearch"
CMD_WEBSEARCH ==
    <<"w","e","b","s","e","a","r","c","h">>

-----------------------------------------------------------------------------
(* Python helpers.                                                         *)

\* "".join in place of " ".join: the separator is left out.
RECURSIVE join_without_separator(_, _)
join_without_separator(sep, parts) ==
    IF parts = <<>> THEN <<>>
    ELSE join_without_separator(sep, SubSeq(parts, 1, Len(parts) - 1))
             \o parts[Len(parts)]

\* str.join: sep.join(parts), folding from the left as CPython does.
RECURSIVE join(_, _)
join(sep, parts) ==
    IF parts = <<>> THEN <<>>
    ELSE IF Len(parts) = 1 THEN parts[1]
    ELSE join(sep, SubSeq(parts, 1, Len(parts) - 1)) \o sep \o parts[Len(parts)]

\* A reply_markup of one row holding one contact-request button.
contact_button ==
    << << [text |-> "Share Phone Number", request_contact |-> TRUE] >> >>

\* What Message.reply_text delivers: a text and an optional keyboard.
reply_text(text, reply_markup) == [text |-> text, reply_markup |-> reply_markup]

\* How a callback ends: by returning, or by raising into the dispatcher.
\* d is the database it leaves behind, sent the replies it delivered and
\* errors the calls that raised on its way.
Return(d, sent, errors) ==
    [db |-> d, replies |-> sent, raised |-> FALSE, errors |-> errors]
Raise(d, sent, errors) ==
    [db |-> d, replies |-> sent, raised |-> TRUE, errors |-> errors]

-----------------------------------------------------------------------------
(* pymongo, on a collection held as a sequence of documents in insertion   *)
(* order.  None is the empty sequence, a found document a sequence of one. *)

\* Collection.find_one({"chat_id": chat_id}): the first matching document.
find_one(coll, chat_id) ==
    LET hits == {i \in DOMAIN coll : coll[i].chat_id = chat_id}
    IN  IF hits = {} THEN <<>>
        ELSE << coll[CHOOSE i \in hits : \A j \in hits : i <= j] >>

\* Collection.insert_one(doc).
insert_one(coll, doc) == Append(coll, doc)

\* {"$set": {"phone_number": phone_number}} applied to one users document.
set_phone_number(doc, phone_number) ==
    [first_name |-> doc.first_name, username |-> doc.username,
     chat_id |-> doc.chat_id, phone_number |-> phone_number]

\* Collection.update_one({"chat_id": chat_id}, {"$set": {"phone_number": ...}}):
\* the first matching document is updated; with no match nothing is written
\* (upsert defaults to False).
update_one(coll, chat_id, phone_number) ==
    LET hits == {i \in DOMAIN coll : coll[i].chat_id = chat_id}
    IN  IF hits = {} THEN coll
        ELSE LET k == CHOOSE i \in hits : \A j \in hits : i <= j
             IN  [coll EXCEPT ![k] = set_phone_number(coll[k], phone_number)]

-----------------------------------------------------------------------------
(* The handlers.  Each takes the database as it finds it, the update and   *)
(* the environment env = [fault, response, now]: the calls that raise if   *)
(* they are made, the text gemini.chat returns, and the clock.             *)

\* start without the lookup: every start inserts a row.
start_always_inserts(d, update, env) ==
    LET user == update.from_user
    IN  IF "insert_one" \in env.fault THEN Raise(d, <<>>, {"insert_one"})
        ELSE LET d1 == [d EXCEPT !.users = insert_one(@,
                           [first_name |-> user.first_name,
                            username |-> user.username,
                            chat_id |-> user.id])]
             IN  IF "reply_text" \in env.fault THEN Raise(d1, <<>>, {"reply_text"})
                 ELSE Return(d1, << reply_text(WELCOME, contact_button) >>, {})

\* start as an upsert that rewrites the row: a second start replaces the
\* stored row by a fresh one.
start_replaces_row(d, update, env) ==
    LET user == update.from_user
        fresh == [first_name |-> user.first_name, username |-> user.username,
                  chat_id |-> user.id]
        hits == {i \in DOMAIN d.users : d.users[i].chat_id = user.id}
        d1 == IF hits = {} THEN [d EXCEPT !.users = insert_one(@, fresh)]
              ELSE [d EXCEPT !.users = [i \in DOMAIN @ |->
                                          IF i \in hits THEN fresh ELSE @[i]]]
    IN  IF "find_one" \in env.fault THEN Raise(d, <<>>, {"find_one"})
        ELSE IF "reply_text" \in env.fault THEN Raise(d1, <<>>, {"reply_text"})
        ELSE Return(d1, << reply_text(WELCOME, contact_button) >>, {})

\* start with the try/except of the other handlers: a failure is answered
\* with an apology instead of being raised.
start_catches(d, update, env) ==
    LET user == update.from_user
        except(error) ==
            IF "apology" \in env.fault THEN Raise(d, <<>>, {error, "apology"})
            ELSE Return(d, << reply_text(SORRY_CHAT, <<>>) >>, {error})
    IN  IF "find_one" \in env.fault THEN except("find_one")
        ELSE IF find_one(d.users, user.id) = <<>> /\ "insert_one" \in env.fault
        THEN except("insert_one")
        ELSE LET d1 == IF find_one(d.users, user.id) = <<>>
                       THEN [d EXCEPT !.users = insert_one(@,
                               [first_name |-> user.first_name,
                                username |-> user.username,
                                chat_id |-> user.id])]
                       ELSE d
             IN  IF "reply_text" \in env.fault THEN Raise(d1, <<>>, {"reply_text"})
                 ELSE Return(d1, << reply_text(WELCOME, contact_button) >>, {})

\* start: registers the user, then asks for the phone number.  Nothing is
\* caught: the first call that raises ends the handler.
start(d, update, env) ==
    LET user == update.from_user
        chat_id == user.id
        welcome(d1) ==
            IF "reply_text" \in env.fault THEN Raise(d1, <<>>, {"reply_text"})
            ELSE Return(d1, << reply_text(WELCOME, contact_button) >>, {})
    IN  IF "find_one" \in env.fault THEN Raise(d, <<>>, {"find_one"})
        ELSE IF find_one(d.users, chat_id) = <<>>
        THEN IF "insert_one" \in env.fault THEN Raise(d, <<>>, {"insert_one"})
             ELSE welcome([d EXCEPT !.users = insert_one(@,
                     [first_name |-> user.first_name,
                      username |-> user.username,
                      chat_id |-> chat_id])])
        ELSE welcome(d)

\* contact_handler looking the row up by the sender instead of by the
\* contact's user_id.
contact_handler_by_sender(d, update, env) ==
    LET contact == update.contact[1]
    IN  IF "update_one" \in env.fault THEN Raise(d, <<>>, {"update_one"})
        ELSE LET d1 == [d EXCEPT !.users =
                           update_one(@, update.from_user.id, contact.phone_number)]
             IN  IF "reply_text" \in env.fault THEN Raise(d1, <<>>, {"reply_text"})
                 ELSE Return(d1, << reply_text(THANK_YOU, <<>>) >>, {})

\* contact_handler with upsert=True: a share for an unregistered user_id
\* inserts a row.
contact_handler_upsert(d, update, env) ==
    LET contact == update.contact[1]
        upserted == IF find_one(d.users, contact.user_id) = <<>>
                    THEN insert_one(d.users, [chat_id |-> contact.user_id,
                                              phone_number |-> contact.phone_number])
                    ELSE update_one(d.users, contact.user_id, contact.phone_number)
    IN  IF "update_one" \in env.fault THEN Raise(d, <<>>, {"update_one"})
        ELSE LET d1 == [d EXCEPT !.users = upserted]
             IN  IF "reply_text" \in env.fault THEN Raise(d1, <<>>, {"reply_text"})
                 ELSE Return(d1, << reply_text(THANK_YOU, <<>>) >>, {})

\* contact_handler: stores the shared number on the row of contact.user_id.
\* Nothing is caught here either.
contact_handler(d, update, env) ==
    LET contact == update.contact[1]
    IN  IF "update_one" \in env.fault THEN Raise(d, <<>>, {"update_one"})
        ELSE LET d1 == [d EXCEPT !.users =
                           update_one(@, contact.user_id, contact.phone_number)]
             IN  IF "reply_text" \in env.fault THEN Raise(d1, <<>>, {"reply_text"})
                 ELSE Return(d1, << reply_text(THANK_YOU, <<>>) >>, {})

\* chat_handler replying before it stores the record: a failed insert
\* is then answered a second time, with the apology.
chat_handler_reply_first(d, update, env) ==
    LET sorry == reply_text(SORRY_CHAT, <<>>)
        except(sent, error) ==
            IF "apology" \in env.fault THEN Raise(d, sent, {error, "apology"})
            ELSE Return(d, sent \o << sorry >>, {error})
    IN  IF "chat" \in env.fault THEN except(<<>>, "chat")
        ELSE IF "reply_text" \in env.fault THEN except(<<>>, "reply_text")
        ELSE IF "insert_one" \in env.fault
        THEN except(<< reply_text(env.response, <<>>) >>, "insert_one")
        ELSE Return([d EXCEPT !.chat_history = insert_one(@,
                        [chat_id |-> update.chat_id,
                         user_input |-> update.text,
                         bot_response |-> env.response,
                         timestamp |-> env.now])],
                    << reply_text(env.response, <<>>) >>, {})

\* chat_handler: the try block holds the Gemini call, the insert and the
\* reply, in that order; the except block sends the apology.
chat_handler(d, update, env) ==
    LET user_message == update.text
        except(d1, error) ==
            IF "apology" \in env.fault THEN Raise(d1, <<>>, {error, "apology"})
            ELSE Return(d1, << reply_text(SORRY_CHAT, <<>>) >>, {error})
    IN  IF "chat" \in env.fault THEN except(d, "chat")
        ELSE LET gemini_response == env.response
             IN  IF "insert_one" \in env.fault THEN except(d, "insert_one")
                 ELSE LET d1 == [d EXCEPT !.chat_history = insert_one(@,
                                    [chat_id |-> update.chat_id,
                                     user_input |-> user_message,
                                     bot_response |-> gemini_response,
                                     timestamp |-> env.now])]
                      IN  IF "reply_text" \in env.fault THEN except(d1, "reply_text")
                          ELSE Return(d1, << reply_text(gemini_response, <<>>) >>, {})

\* file_handler: the download comes before the try block; the try block
\* holds the insert and the reply.
file_handler(d, update, env) ==
    LET is_document == update.document # <<>>
        file == IF is_document THEN update.document[1]
                ELSE update.photo[Len(update.photo)]
        file_name == IF is_document THEN file.file_name ELSE PHOTO_JPG
        except(d1, error) ==
            IF "apology" \in env.fault THEN Raise(d1, <<>>, {error, "apology"})
            ELSE Return(d1, << reply_text(SORRY_FILE, <<>>) >>, {error})
    IN  IF "download" \in env.fault THEN Raise(d, <<>>, {"download"})
        ELSE LET gemini_analysis == ANALYSIS_PREFIX \o file_name \o ANALYSIS_SUFFIX
             IN  IF "insert_one" \in env.fault THEN except(d, "insert_one")
                 ELSE LET d1 == [d EXCEPT !.files = insert_one(@,
                                    [file_name |-> file_name,
                                     chat_id |-> update.chat_id,
                                     description |-> gemini_analysis,
                                     timestamp |-> env.now])]
                      IN  IF "reply_text" \in env.fault THEN except(d1, "reply_text")
                          ELSE Return(d1,
                                 << reply_text(FILE_ANALYZED \o gemini_analysis, <<>>) >>,
                                 {})

\* web_search: the usage reply is sent outside the try block; the try block
\* holds the insert and the reply.
web_search(d, update, env) ==
    LET query == join(<<" ">>, update.args)
        except(d1, error) ==
            IF "apology" \in env.fault THEN Raise(d1, <<>>, {error, "apology"})
            ELSE Return(d1, << reply_text(SORRY_SEARCH, <<>>) >>, {error})
    IN  IF query = <<>>
        THEN IF "reply_text" \in env.fault THEN Raise(d, <<>>, {"reply_text"})
             ELSE Return(d, << reply_text(USAGE, <<>>) >>, {})
        ELSE LET search_results == RESULTS_PREFIX \o query \o RESULTS_SUFFIX
             IN  IF "insert_one" \in env.fault THEN except(d, "insert_one")
                 ELSE LET d1 == [d EXCEPT !.web_search = insert_one(@,
                                    [chat_id |-> update.chat_id,
                                     query |-> query,
                                     results |-> search_results,
                                     timestamp |-> env.now])]
                      IN  IF "reply_text" \in env.fault THEN except(d1, "reply_text")
                          ELSE Return(d1, << reply_text(search_results, <<>>) >>, {})

-----------------------------------------------------------------------------
(* The dispatcher.  main() registers five handlers, all in group 0: an     *)
(* update goes to the first registered handler whose check accepts it and  *)
(* to no other; an update no handler accepts is dropped.                   *)

\* str.split() on runs of spaces: the words of a text.
RECURSIVE split(_)
split(s) ==
    IF s = <<>> THEN <<>>
    ELSE IF s[1] = " " THEN split(Tail(s))
    ELSE LET n == CHOOSE i \in 1..Len(s) :
                      /\ \A j \in 1..i : s[j] # " "
                      /\ (i = Len(s) \/ s[i + 1] = " ")
         IN  << SubSeq(s, 1, n) >> \o split(SubSeq(s, n + 1, Len(s)))

\* The filters main() uses, as terms, and their value on a message.
Filters_contact == [op |-> "contact"]
Filters_text == [op |-> "text"]
Filters_command == [op |-> "command"]
Filters_document == [op |-> "document"]
Filters_photo == [op |-> "photo"]
Filters_and(f, g) == [op |-> "and", left |-> f, right |-> g]
Filters_or(f, g) == [op |-> "or", left |-> f, right |-> g]
Filters_not(f) == [op |-> "not", left |-> f]

RECURSIVE filter(_, _)
filter(f, message) ==
    CASE f.op = "contact" -> message.contact # <<>>
      [] f.op = "text" -> message.text # <<>>
      [] f.op = "command" -> message.text # <<>> /\ message.text[1] = "/"
      [] f.op = "document" -> message.document # <<>>
      [] f.op = "photo" -> message.photo # <<>>
      [] f.op = "and" -> filter(f.left, message) /\ filter(f.right, message)
      [] f.op = "or" -> filter(f.left, message) \/ filter(f.right, message)
      [] f.op = "not" -> ~filter(f.left, message)

CommandHandler(command, callback) ==
    [type |-> "CommandHandler", command |-> command, callback |-> callback]
MessageHandler(filters, callback) ==
    [type |-> "MessageHandler", filters |-> filters, callback |-> callback]

\* main() with Filters.text alone on the chat handler: commands are not
\* excluded from it.
main_text_with_commands ==
    << CommandHandler(CMD_START, "start"),
       CommandHandler(CMD_WEBSEARCH, "web_search"),
       MessageHandler(Filters_contact, "contact_handler"),
       MessageHandler(Filters_text, "chat_handler"),
       MessageHandler(Filters_or(Filters_document, Filters_photo),
                      "file_handler") >>

\* The handlers in the order main() adds them.
main ==
    << CommandHandler(CMD_START, "start"),
       CommandHandler(CMD_WEBSEARCH, "web_search"),
       MessageHandler(Filters_contact, "contact_handler"),
       MessageHandler(Filters_and(Filters_text, Filters_not(Filters_command)),
                      "chat_handler"),
       MessageHandler(Filters_or(Filters_document, Filters_photo),
                      "file_handler") >>

\* Handler.check_update: a CommandHandler accepts a text whose first word is
\* "/" followed by its command, a MessageHandler what its filter accepts.
check_update(handler, message) ==
    IF handler.type = "CommandHandler"
    THEN /\ filter(Filters_command, message)
         /\ split(message.text)[1] = <<"/">> \o handler.command
    ELSE filter(handler.filters, message)

\* Dispatcher.process_update: the callbacks invoked for an update, none or one.
process_update(message) ==
    LET accepting == {i \in DOMAIN main : check_update(main[i], message)}
    IN  IF accepting = {} THEN <<>>
        ELSE << main[CHOOSE i \in accepting : \A j \in accepting : i <= j].callback >>

\* context.args of a command: the words after the command.
context_args(message) == Tail(split(message.text))

\* The calls of each callback that may raise.  "reply_text" is the reply of
\* the normal path (and the usage reply), "apology" the reply_text of an
\* except block.
Sites(callback) ==
    CASE callback = "start" -> {"find_one", "insert_one", "reply_text"}
      [] callback = "contact_handler" -> {"update_one", "reply_text"}
      [] callback = "chat_handler" -> {"chat", "insert_one", "reply_text", "apology"}
      [] callback = "file_handler" -> {"download", "insert_one", "reply_text", "apology"}
      [] callback = "web_search" -> {"insert_one", "reply_text", "apology"}

\* The call of a registered callback.
Call(callback, d, update, env) ==
    CASE callback = "start" -> start(d, update, env)
      [] callback = "contact_handler" -> contact_handler(d, update, env)
      [] callback = "chat_handler" -> chat_handler(d, update, env)
      [] callback = "file_handler" -> file_handler(d, update, env)
      [] callback = "web_search" ->
             web_search(d, [update EXCEPT !.args = context_args(update)], env)

-----------------------------------------------------------------------------
(* The updates the model receives.                                         *)

ANN == [id |-> 1, first_name |-> "Ann", username |-> "ann"]
ANNA == [id |-> 1, first_name |-> "Anna", username |-> "ann"]
BOB == [id |-> 2, first_name |-> "Bob", username |-> "bob"]

\* A message of a private chat (chat id = user id) with no content field set:
\* what a sticker or a location looks like to the filters of main().
Message(user) ==
    [from_user |-> user, chat_id |-> user.id, text |-> <<>>, args |-> <<>>,
     contact |-> <<>>, document |-> <<>>, photo |-> <<>>]

TEXT_HI == <<"h","i">>
TEXT_YO == <<"y","o"," ","y","o">>
RESPONSE_OK == <<"o","k">>
RESPONSE_HI == <<"h","i">>
FILE_A_PDF == <<"a",".","p","d","f">>
SLASH_START == <<"/">> \o CMD_START
SLASH_WEBSEARCH == <<"/">> \o CMD_WEBSEARCH
SLASH_HELP == <<"/","h","e","l","p">>

StartUpdates == {[Message(u) EXCEPT !.text = SLASH_START] : u \in {ANN, ANNA, BOB}}
WebSearchUpdates ==
    {[Message(ANN) EXCEPT !.text = SLASH_WEBSEARCH \o t] :
        t \in { <<>>,
                <<" ","a","b">>,
                <<" "," ","a","b"," ","c">> }}
ContactUpdates ==
    {[Message(ANN) EXCEPT !.contact = << [user_id |-> i, phone_number |-> p] >>] :
        i \in {ANN.id, BOB.id}, p \in {"+1555", "+1666"}}
TextUpdates == {[Message(BOB) EXCEPT !.text = t] : t \in {TEXT_HI, TEXT_YO}}
FileUpdates ==
    { [Message(ANN) EXCEPT !.document = << [file_name |-> FILE_A_PDF] >>],
      [Message(ANN) EXCEPT !.photo = << [width |-> 90], [width |-> 320] >>] }
OtherUpdates == { Message(BOB), [Message(BOB) EXCEPT !.text = SLASH_HELP] }

Updates ==
    StartUpdates \cup WebSearchUpdates \cup ContactUpdates \cup TextUpdates
        \cup FileUpdates \cup OtherUpdates

\* The texts gemini.chat returns.
Responses == {RESPONSE_OK, RESPONSE_HI}

-----------------------------------------------------------------------------
(* The state machine.                                                      *)

\* The bot as main() leaves it before the first update: empty collections.
\* last_update holds a message without content until an update arrives.
Init ==
    /\ db = [users |-> <<>>, chat_history |-> <<>>, files |-> <<>>,
             web_search |-> <<>>]
    /\ now = 0
    /\ last_update = Message(ANN)
    /\ fault = {}
    /\ handled = <<>>
    /\ replies = <<>>
    /\ raised = FALSE

\* The updates each callback receives, and those that are dropped.
Routed == [update \in Updates |-> process_update(update)]

\* An update handled to completion by the callback it goes to.
Dispatch(callback) ==
    \E update \in {u \in Updates : Routed[u] = << callback >>} :
      \E f \in SUBSET Sites(callback), response \in Responses :
        LET env == [fault |-> f, response |-> response, now |-> now + 1]
            r == Call(callback, db, update, env)
        IN  /\ db' = r.db
            /\ replies' = r.replies
            /\ raised' = r.raised
            /\ fault' = r.errors
            /\ last_update' = update
            /\ handled' = << callback >>
            /\ now' = now + 1

StartCommand ==
    /\ now < MaxEvents
    /\ Dispatch("start")

WebSearchCommand ==
    /\ now < MaxEvents
    /\ Dispatch("web_search")

ContactMessage ==
    /\ now < MaxEvents
    /\ Dispatch("contact_handler")

TextMessage ==
    /\ now < MaxEvents
    /\ Dispatch("chat_handler")

FileMessage ==
    /\ now < MaxEvents
    /\ Dispatch("file_handler")

\* One update received that no handler accepts: it is dropped.
Unhandled ==
    /\ now < MaxEvents
    /\ \E update \in {u \in Updates : Routed[u] = <<>>} :
          last_update' = update
    /\ fault' = {}
    /\ handled' = <<>>
    /\ replies' = <<>>
    /\ raised' = FALSE
    /\ now' = now + 1
    /\ UNCHANGED db

Next ==
    \/ StartCommand
    \/ WebSearchCommand
    \/ ContactMessage
    \/ TextMessage
    \/ FileMessage
    \/ Unhandled

Spec == Init /\ [][Next]_vars

-----------------------------------------------------------------------------
(* Vocabulary of the properties.                                           *)

\* s is an initial part of t.
IsPrefix(s, t) == Len(s) <= Len(t) /\ SubSeq(t, 1, Len(s)) = s

\* The text q occurs in the text s.
Contains(s, q) ==
    \E i \in 0..(Len(s) - Len(q)) : SubSeq(s, i + 1, i + Len(q)) = q

\* The words joined with single spaces, first word first.
RECURSIVE SpaceJoined(_)
SpaceJoined(words) ==
    IF words = <<>> THEN <<>>
    ELSE IF Len(words) = 1 THEN words[1]
    ELSE words[1] \o <<" ">> \o SpaceJoined(Tail(words))

\* The rows of a users collection that belong to a chat_id.
RowsOf(coll, chat_id) == {i \in DOMAIN coll : coll[i].chat_id = chat_id}

\* A users row has a phone number stored.
HasPhone(row) == "phone_number" \in DOMAIN row

\* A collection grew by exactly one document, which is its new last one.
GrewByOne(before, after) == Len(after) = Len(before) + 1 /\ IsPrefix(before, after)

-----------------------------------------------------------------------------
\* C1: in every reachable state the users collection holds at most one row
\* per chat_id.
C1_OneRowPerChatId ==
    \A i, j \in DOMAIN db.users :
        db.users[i].chat_id = db.users[j].chat_id => i = j

\* start has just been handled, without failure, for a chat_id that was
\* registered before under another first name.
C1_Witness ==
    /\ handled = << "start" >>
    /\ fault = {}
    /\ \E i \in DOMAIN db.users :
          /\ db.users[i].chat_id = last_update.from_user.id
          /\ db.users[i].first_name # last_update.from_user.first_name

-----------------------------------------------------------------------------
\* C2: handling start for a chat_id with no User row adds exactly one row
\* for that chat_id, with phone_number unset (the lookup and the insert
\* returning normally); handling start for a chat_id that has a row adds no
\* row and leaves every row as it was, a stored phone_number included.
C2_StartRegistersOnce ==
    [][ handled' = << "start" >> =>
          LET user == last_update'.from_user
          IN  IF RowsOf(db.users, user.id) = {}
              THEN fault' \cap {"find_one", "insert_one"} = {} =>
                     /\ GrewByOne(db.users, db'.users)
                     /\ LET row == db'.users[Len(db'.users)]
                        IN  /\ row.chat_id = user.id
                            /\ row.first_name = user.first_name
                            /\ row.username = user.username
                            /\ ~HasPhone(row)
              ELSE db'.users = db.users
      ]_vars

\* start has just been handled for a chat_id whose row holds a phone number
\* stored by an earlier contact-share.
C2_Witness ==
    /\ handled = << "start" >>
    /\ \E i \in DOMAIN db.users :
          /\ db.users[i].chat_id = last_update.from_user.id
          /\ HasPhone(db.users[i])

-----------------------------------------------------------------------------
\* C3: handling a contact-share whose user_id has a User row leaves that
\* row with phone_number equal to the shared number and changes no other
\* row; with no such row the users collection is unchanged and no error is
\* raised; in both cases the thank-you reply is sent (the update and the
\* send returning normally).
C3_ContactSetsPhone ==
    [][ handled' = << "contact_handler" >> =>
          LET contact == last_update'.contact[1]
              rows == RowsOf(db.users, contact.user_id)
          IN  /\ Len(db'.users) = Len(db.users)
              /\ \A i \in DOMAIN db.users \ rows : db'.users[i] = db.users[i]
              /\ "update_one" \notin fault' =>
                   \A i \in rows :
                      /\ HasPhone(db'.users[i])
                      /\ db'.users[i].phone_number = contact.phone_number
                      /\ db'.users[i].chat_id = db.users[i].chat_id
                      /\ db'.users[i].first_name = db.users[i].first_name
                      /\ db'.users[i].username = db.users[i].username
              /\ fault' = {} =>
                   /\ ~raised'
                   /\ replies' = << reply_text(THANK_YOU, <<>>) >>
      ]_vars

\* A contact-share has just been handled, without failure, for a user_id
\* that has a row, beside the row of another chat_id; the row holds the
\* shared number.
C3_Witness ==
    /\ handled = << "contact_handler" >>
    /\ fault = {}
    /\ Len(db.users) = 2
    /\ \E i \in DOMAIN db.users :
          /\ db.users[i].chat_id = last_update.contact[1].user_id
          /\ HasPhone(db.users[i])
          /\ db.users[i].phone_number = last_update.contact[1].phone_number
    /\ replies = << reply_text(THANK_YOU, <<>>) >>

-----------------------------------------------------------------------------
\* C9: in the start handler a failure of the lookup or of the insert is not
\* caught: the handler ends by raising into the dispatcher, no reply is
\* sent, and the users collection is as it was before the update.
C9_StartPropagates ==
    [][ (handled' = << "start" >> /\ fault' \cap {"find_one", "insert_one"} # {}) =>
          /\ raised'
          /\ replies' = <<>>
          /\ db'.users = db.users
      ]_vars

\* start has just been handled for an unregistered chat_id and its insert
\* raised.
C9_Witness ==
    /\ handled = << "start" >>
    /\ fault = {"insert_one"}
    /\ raised
    /\ RowsOf(db.users, last_update.from_user.id) = {}

-----------------------------------------------------------------------------
\* C4: every run of the chat handler ends in one of two outcomes: (a) one
\* new ChatHistoryRecord, whose input is the message text, has been written
\* and its response was sent as the reply, or (b) no record has been
\* written and the fixed apology was sent - whichever of the Gemini call,
\* the insert and the sending of the reply fails.  (Stated for the runs in
\* which the apology, if it comes to it, is delivered.)
C4_RecordXorApology ==
    [][ (handled' = << "chat_handler" >> /\ "apology" \notin fault') =>
          \/ /\ GrewByOne(db.chat_history, db'.chat_history)
             /\ LET record == db'.chat_history[Len(db'.chat_history)]
                IN  /\ record.user_input = last_update'.text
                    /\ replies' = << reply_text(record.bot_response, <<>>) >>
          \/ /\ db'.chat_history = db.chat_history
             /\ replies' = << reply_text(SORRY_CHAT, <<>>) >>
      ]_vars

-----------------------------------------------------------------------------
\* C5: a websearch command with no arguments gets the usage reply and
\* writes no SearchRecord; one with arguments, when no call fails, writes
\* exactly one SearchRecord whose query is the arguments joined by single
\* spaces, and its reply contains that query.
C5_WebSearch ==
    [][ handled' = << "web_search" >> =>
          LET words == context_args(last_update')
          IN  IF words = <<>>
              THEN /\ db'.web_search = db.web_search
                   /\ fault' = {} => replies' = << reply_text(USAGE, <<>>) >>
              ELSE fault' = {} =>
                     /\ GrewByOne(db.web_search, db'.web_search)
                     /\ db'.web_search[Len(db'.web_search)].query = SpaceJoined(words)
                     /\ Len(replies') = 1
                     /\ Contains(replies'[1].text, SpaceJoined(words))
      ]_vars

\* A websearch command with two arguments has just been handled without
\* failure, and its record is the last of the collection.
C5_Witness ==
    /\ handled = << "web_search" >>
    /\ fault = {}
    /\ Len(context_args(last_update)) = 2
    /\ db.web_search # <<>>
    /\ db.web_search[Len(db.web_search)].timestamp = now

-----------------------------------------------------------------------------
\* C6: a start command goes to start, a websearch command to web_search, a
\* contact-share to contact_handler, a text that is no command to
\* chat_handler, a document or photo to file_handler, each to that handler
\* alone; any other update, a command other than start and websearch
\* included, invokes no handler, changes no collection and gets no reply.
C6_Routing ==
    [][ /\ last_update' \in StartUpdates => handled' = << "start" >>
        /\ last_update' \in WebSearchUpdates => handled' = << "web_search" >>
        /\ last_update' \in ContactUpdates => handled' = << "contact_handler" >>
        /\ last_update' \in TextUpdates => handled' = << "chat_handler" >>
        /\ last_update' \in FileUpdates => handled' = << "file_handler" >>
        /\ last_update' \in OtherUpdates =>
             /\ handled' = <<>>
             /\ db' = db
             /\ replies' = <<>>
             /\ ~raised'
      ]_vars

\* The command /help has just been received and dropped.
C6_Witness ==
    /\ now > 0
    /\ last_update.text = SLASH_HELP
    /\ handled = <<>>

-----------------------------------------------------------------------------
C7_RaisingPath ==
    \/ handled = << "start" >> /\ fault # {}
    \/ handled = << "contact_handler" >> /\ fault # {}
    \/ handled = << "file_handler" >> /\ "download" \in fault
    \/ handled = << "web_search" >> /\ context_args(last_update) = <<>> /\ fault # {}
    \/ "apology" \in fault

-----------------------------------------------------------------------------
\* C8: in the file handler a failure of the download or of the insert is
\* caught: the handler does not raise, writes no FileRecord and sends the
\* fixed apology.  (Stated for the runs in which the apology, if it comes
\* to it, is delivered.)
C8_FileFailureCaught ==
    [][ ( /\ handled' = << "file_handler" >>
          /\ fault' \cap {"download", "insert_one"} # {}
          /\ "apology" \notin fault' ) =>
          /\ ~raised'
          /\ db'.files = db.files
          /\ replies' = << reply_text(SORRY_FILE, <<>>) >>
      ]_vars

-----------------------------------------------------------------------------
\* The collection a handler writes its records to.
OwnCollection(callbacks) ==
    CASE callbacks = << "start" >> -> {"users"}
      [] callbacks = << "chat_handler" >> -> {"chat_history"}
      [] callbacks = << "file_handler" >> -> {"files"}
      [] callbacks = << "web_search" >> -> {"web_search"}
      [] OTHER -> {}

Collections == {"users", "chat_history", "files", "web_search"}

\* C10: the collections only grow.  No handler deletes a User row or
\* changes its chat_id, first name or username; the one change to a row is
\* contact_handler setting phone_number.  No handler deletes or changes a
\* chat_history, files or web_search record.  An update adds at most one
\* record, and only to the collection of its own handler.
C10_AppendOnly ==
    [][ /\ \A c \in Collections \ {"users"} : IsPrefix(db[c], db'[c])
        /\ Len(db'.users) >= Len(db.users)
        /\ \A i \in DOMAIN db.users :
              /\ db'.users[i].chat_id = db.users[i].chat_id
              /\ db'.users[i].first_name = db.users[i].first_name
              /\ db'.users[i].username = db.users[i].username
              /\ HasPhone(db.users[i]) => HasPhone(db'.users[i])
              /\ db'.users[i] # db.users[i] => handled' = << "contact_handler" >>
        /\ \A c \in Collections :
              /\ Len(db'[c]) <= Len(db[c]) + 1
              /\ Len(db'[c]) > Len(db[c]) => c \in OwnCollection(handled')
      ]_vars

\* A contact-share has just stored a phone number in a database that
\* already holds a chat_history record.
C10_Witness ==
    /\ handled = << "contact_handler" >>
    /\ db.chat_history # <<>>
    /\ \E i \in DOMAIN db.users :
          /\ HasPhone(db.users[i])
          /\ db.users[i].chat_id = last_update.contact[1].user_id

=============================================================================
